---- MODULE Spec2Model ----
(***************************************************************************)
(* OmenkaApp: the document model and the synchronization engine of         *)
(* EditorScreen (the Firestore-backed variant, EditorScreen.tsx:179-843),  *)
(* its Local Cache (lib/storage), its Remote Store adapter                 *)
(* (lib/projectsRepo) and the debounce hook (lib/useDebouncedEffect).      *)
(*                                                                         *)
(* One action is one event-loop task of the browser: an event handler or a *)
(* promise continuation, followed by the React render it causes and the    *)
(* effects of that render (persistence effect, debounced effect), which    *)
(* React flushes before the next task runs.                                *)
(***************************************************************************)
EXTENDS Integers, Sequences, FiniteSets, Bags, TLC

\* ------------------------------------------------------------------ bounds
\* user events and owner changes in one behaviour
MaxOps == 2

\* ------------------------------------------------------------- data model
Uids == {"A", "B"}

BlockTypes ==
    {"scene-heading", "action", "character", "parenthetical", "dialogue",
     "transition", "shot"}

\* null, for activeId and for ids
NoId == 0

\* the texts a user types into a block, and into the title
EditTexts == {"x"}
EditTitles == {"T"}

\* what a user types as the AI prompt, and what /api/ai answers
AiPrompts == {"p", "q"}
AiTexts == {"S"}

Block(i, t, c) == [id |-> i, type |-> t, content |-> c]

\* useMemo's null for `active`, in the shape of a project
Null ==
    [id |-> NoId,
     metadata |-> [title |-> "", author |-> "", draftDate |-> 0, country |-> ""],
     content |-> <<>>,
     lastModifiedISO |-> 0]

\* mutant of makeDefaultProject: the template opens with an action block
makeDefaultProjectAction(pid, bid, t) ==
    [id |-> pid,
     metadata |-> [title |-> "UNTITLED SCREENPLAY", author |-> "Omenka Writer",
                   draftDate |-> t, country |-> "Nigeria"],
     content |-> <<[id |-> bid, type |-> "action", content |-> "INT. LIVING ROOM - DAY"]>>,
     lastModifiedISO |-> t]

\* makeDefaultProject with the two ids id() hands out and the clock's reading
makeDefaultProject(pid, bid, t) ==
    [id |-> pid,
     metadata |-> [title |-> "UNTITLED SCREENPLAY", author |-> "Omenka Writer",
                   draftDate |-> t, country |-> "Nigeria"],
     content |-> <<Block(bid, "scene-heading", "INT. LIVING ROOM - DAY")>>,
     lastModifiedISO |-> t]

\* mutant of nextType: the case of "transition" is missing
nextTypeNoTransition(t) ==
    CASE t = "scene-heading" -> "action"
      [] t = "character" -> "dialogue"
      [] t = "parenthetical" -> "dialogue"
      [] t = "dialogue" -> "character"
      [] OTHER -> "action"

nextType(t) ==
    CASE t = "scene-heading" -> "action"
      [] t = "character" -> "dialogue"
      [] t = "parenthetical" -> "dialogue"
      [] t = "dialogue" -> "character"
      [] t = "transition" -> "scene-heading"
      [] OTHER -> "action"

\* ------------------------------------------------------- sequence helpers
RECURSIVE SelectSeqBy(_, _)
\* Array.prototype.filter, with the kept indices given as a set
SelectSeqBy(s, keep) ==
    IF s = <<>> THEN <<>>
    ELSE LET rest == SelectSeqBy(Tail(s), {i - 1 : i \in keep \ {1}})
         IN IF 1 \in keep THEN <<Head(s)>> \o rest ELSE rest

Ids(s) == {s[i].id : i \in 1..Len(s)}

\* Array.prototype.findIndex, 1-based; 0 for the code's -1
FindIndex(s, i) ==
    IF \E k \in 1..Len(s) : s[k].id = i
    THEN CHOOSE k \in 1..Len(s) : s[k].id = i /\ \A j \in 1..(k - 1) : s[j].id # i
    ELSE 0

\* ------------------------------------------------------------ Local Cache
\* localStorage's entry under KEY: absent, text that is no JSON, JSON that is
\* no array, or the JSON of an array of projects
NoItem == [kind |-> "absent", value |-> <<>>]
Malformed == [kind |-> "malformed", value |-> <<>>]
NotArray == [kind |-> "object", value |-> <<>>]

\* saveProjects: JSON.stringify of the array, stored under KEY
saveProjects(ps) == [kind |-> "array", value |-> ps]

\* loadProjects: [] when absent, unparseable or no array
loadProjects(raw) ==
    IF raw.kind = "absent" THEN <<>>
    ELSE IF raw.kind = "malformed" THEN <<>>
    ELSE IF raw.kind = "array" THEN raw.value
    ELSE <<>>

\* ---------------------------------------------------------- Document Model
\* the updater of updateBlock: always a new object, stamped
updateBlock(p, blockId, content, t) ==
    [p EXCEPT !.lastModifiedISO = t,
              !.content = [k \in 1..Len(p.content) |->
                             IF p.content[k].id = blockId
                             THEN [p.content[k] EXCEPT !.content = content]
                             ELSE p.content[k]]]

\* mutant of addBlockAfter: an id that is not found still stamps the project
addBlockAfterStamping(p, afterId, newId, t) ==
    LET idx == FindIndex(p.content, afterId)
    IN IF idx = 0 THEN [p EXCEPT !.lastModifiedISO = t]
       ELSE LET newBlock == Block(newId, nextType(p.content[idx].type), "")
                next == SubSeq(p.content, 1, idx) \o <<newBlock>>
                        \o SubSeq(p.content, idx + 1, Len(p.content))
            IN [p EXCEPT !.lastModifiedISO = t, !.content = next]

\* mutant of addBlockAfter: the new block goes to the end of the document
addBlockAfterAtEnd(p, afterId, newId, t) ==
    LET idx == FindIndex(p.content, afterId)
    IN IF idx = 0 THEN p
       ELSE LET newBlock == Block(newId, nextType(p.content[idx].type), "")
            IN [p EXCEPT !.lastModifiedISO = t, !.content = Append(p.content, newBlock)]

\* the updater of addBlockAfter; newId is the id() of the new block
addBlockAfter(p, afterId, newId, t) ==
    LET idx == FindIndex(p.content, afterId)
    IN IF idx = 0 THEN p
       ELSE LET newBlock == Block(newId, nextType(p.content[idx].type), "")
                next == SubSeq(p.content, 1, idx) \o <<newBlock>>
                        \o SubSeq(p.content, idx + 1, Len(p.content))
            IN [p EXCEPT !.lastModifiedISO = t, !.content = next]

\* mutant of removeBlock: no guard on the last block
removeBlockUnguarded(p, blockId, t) ==
    [p EXCEPT !.lastModifiedISO = t,
              !.content = SelectSeqBy(p.content,
                  {k \in 1..Len(p.content) : p.content[k].id # blockId})]

\* the updater of removeBlock
removeBlock(p, blockId, t) ==
    IF Len(p.content) <= 1 THEN p
    ELSE [p EXCEPT !.lastModifiedISO = t,
                   !.content = SelectSeqBy(p.content,
                       {k \in 1..Len(p.content) : p.content[k].id # blockId})]

\* the updater of the title input's onChange: no stamp
setTitle(p, title) == [p EXCEPT !.metadata.title = title]

\* the updater of the type select's onChange and of the Tab key: no stamp
setType(p, blockId, type) ==
    [p EXCEPT !.content = [k \in 1..Len(p.content) |->
                             IF p.content[k].id = blockId
                             THEN [p.content[k] EXCEPT !.type = type]
                             ELSE p.content[k]]]

\* the Tab key's cycle: types[(types.indexOf(t) + 1) % types.length]; "shot" is
\* not in `types`, indexOf gives -1 and the block becomes types[0]
tabType(t) ==
    CASE t = "scene-heading" -> "action"
      [] t = "action" -> "character"
      [] t = "character" -> "parenthetical"
      [] t = "parenthetical" -> "dialogue"
      [] t = "dialogue" -> "transition"
      [] t = "transition" -> "scene-heading"
      [] OTHER -> "scene-heading"

\* the updater of "insert" under the AI result: an action block at the end,
\* no stamp
appendAiResult(p, newId, text) ==
    [p EXCEPT !.content = Append(p.content, Block(newId, "action", text))]

\* ------------------------------------------------- what the stores hold at start
StoredProject(pid, blocks) ==
    [id |-> pid,
     metadata |-> [title |-> "UNTITLED SCREENPLAY", author |-> "Omenka Writer",
                   draftDate |-> 0, country |-> "Nigeria"],
     content |-> blocks,
     lastModifiedISO |-> 0]

RA1 == StoredProject(1, <<Block(2, "scene-heading", "INT. LIVING ROOM - DAY")>>)
RA2 == StoredProject(3, <<Block(4, "character", "ADA"), Block(5, "dialogue", "x")>>)
RB1 == StoredProject(6, <<Block(7, "scene-heading", "INT. LIVING ROOM - DAY")>>)
L1 == StoredProject(8, <<Block(9, "transition", "CUT TO:")>>)
L2 == StoredProject(10, <<Block(11, "action", "x")>>)
\* the first id that id() hands out
FirstFreshId == 12

\* ------------------------------------------------------------------ state
VARIABLES
    mounted,      \* EditorScreen has rendered once and run its effects
    user,         \* props.user.uid
    projects,     \* useState: the in-memory collection
    activeId,     \* useState
    loading,      \* useState
    saveStatus,   \* useState
    storage,      \* localStorage[KEY]
    remote,       \* Firestore: users/<uid>/projects, updatedAt descending
    calls,        \* listProjects calls in flight, each with its effect's `cancelled`
    timers,       \* pending setTimeout handlers of useDebouncedEffect
    writes,       \* upsertProject / removeProject calls in flight (a bag)
    now,          \* the clock at the latest load or block handler: what new Date() read there, or would have
    nextId,       \* the next id that id() returns
    ops,          \* user events and owner changes so far
    lastOp,       \* the handler that ran last: the mount, a load's outcome or a user event
    madeUnder,    \* history: the project ids loaded or created under each owner
    aiEnabled,    \* AI_ENABLED, fixed when the bundle is built
    aiResult,     \* useState
    isGenerating, \* useState
    fetches       \* requests to /api/ai in flight

\* the state of the AI panel
aiVars == <<aiEnabled, aiResult, isGenerating, fetches>>

vars ==
    <<mounted, user, projects, activeId, loading, saveStatus, storage, remote,
      calls, timers, writes, now, nextId, ops, lastOp, madeUnder, aiEnabled,
      aiResult, isGenerating, fetches>>

\* what new Date() may read next: the clock never runs backwards, and what
\* matters of a reading is whether it is later than the one before
Readings == {now, now + 1}

\* useMemo: the active project, or null
Active(ps, aid) ==
    IF Len(ps) = 0 THEN Null
    ELSE IF \E k \in 1..Len(ps) : ps[k].id = aid
         THEN ps[FindIndex(ps, aid)]
         ELSE ps[1]

\* mutant of clearTimeout: the cleanup clears nothing
clearNothing(ts) == ts

\* the cleanup of useDebouncedEffect: clearTimeout of the handler set before
clearTimeout(ts) == {}

\* useDebouncedEffect's effect when its deps changed: cleanup, then setTimeout
\* of the closure over this render's user.uid and active
useDebouncedEffect(ts, uid, act) ==
    clearTimeout(ts) \cup {[uid |-> uid, active |-> act]}

\* mutant of initialProjects: the Local Cache is preferred to the remote list
initialProjectsLocalFirst(remoteList, local, pid, bid, t) ==
    IF Len(local) > 0 THEN local
    ELSE IF Len(remoteList) > 0 THEN remoteList
    ELSE <<[id |-> pid,
            metadata |-> [title |-> "UNTITLED SCREENPLAY", author |-> "Omenka Writer",
                          draftDate |-> t, country |-> "Nigeria"],
            content |-> <<[id |-> bid, type |-> "scene-heading",
                           content |-> "INT. LIVING ROOM - DAY"]>>,
            lastModifiedISO |-> t]>>

\* the body of the Initial Load effect once listProjects resolved: the
\* collection it adopts (fresh ids and the clock are for makeDefaultProject)
initialProjects(remoteList, local, pid, bid, t) ==
    IF Len(remoteList) > 0 THEN remoteList
    ELSE IF Len(local) > 0 THEN local
    ELSE <<makeDefaultProject(pid, bid, t)>>

\* listProjects: the owner's documents, updatedAt descending
listProjects(store, uid) == store[uid]

\* setDoc(..., {merge: true}) with a fresh serverTimestamp: the document is
\* replaced and becomes the most recently updated
upsertProject(store, uid, p) ==
    [store EXCEPT ![uid] =
        <<p>> \o SelectSeqBy(store[uid], {k \in 1..Len(store[uid]) : store[uid][k].id # p.id})]

\* deleteDoc
removeProject(store, uid, pid) ==
    [store EXCEPT ![uid] =
        SelectSeqBy(store[uid], {k \in 1..Len(store[uid]) : store[uid][k].id # pid})]

\* a call in flight; tracked: the debounced effect's then/catch wait for it;
\* at: history, the number of user events and owner changes before its dispatch
UpsertCall(uid, p, tracked) ==
    [kind |-> "upsert", uid |-> uid, id |-> p.id, project |-> p, tracked |-> tracked,
     at |-> ops]

RemoveCall(uid, pid) ==
    [kind |-> "remove", uid |-> uid, id |-> pid, project |-> Null, tracked |-> FALSE,
     at |-> ops]

Init ==
    /\ mounted = FALSE
    /\ user = "A"
    /\ projects = <<>>
    /\ activeId = NoId
    /\ loading = TRUE
    /\ saveStatus = "saved"
    /\ storage \in {NoItem, Malformed, NotArray, saveProjects(<<>>), saveProjects(<<L1, L2>>)}
    /\ remote \in {[u \in Uids |-> <<>>],
                   [u \in Uids |-> IF u = "A" THEN <<RA1, RA2>> ELSE <<RB1>>]}
    /\ calls = {}
    /\ timers = {}
    /\ writes = EmptyBag
    /\ now = 0
    /\ nextId = FirstFreshId
    /\ ops = 0
    /\ lastOp = "init"
    /\ madeUnder = [u \in Uids |-> Ids(remote[u])]
    /\ aiEnabled = FALSE
    /\ aiResult = ""
    /\ isGenerating = FALSE
    /\ fetches = {}

\* the first render and its effects: Initial Load (up to its await),
\* Persistence, and the debounced effect
Mount ==
    /\ ~mounted
    /\ mounted' = TRUE
    /\ loading' = TRUE
    /\ calls' = {[uid |-> user, cancelled |-> FALSE]}
    /\ storage' = saveProjects(projects)
    /\ timers' = useDebouncedEffect(timers, user, Active(projects, activeId))
    /\ lastOp' = "mount"
    /\ UNCHANGED aiVars
    /\ UNCHANGED <<user, projects, activeId, saveStatus, remote, writes, now,
                   nextId, ops, madeUnder>>

\* AppShell hands EditorScreen another user: the Initial Load effect's cleanup
\* sets the running load's `cancelled`, and the effect runs again
OwnerChange(u) ==
    /\ mounted
    /\ ops < MaxOps
    /\ u # user
    /\ user' = u
    /\ loading' = TRUE
    /\ calls' = {[c EXCEPT !.cancelled = TRUE] : c \in calls}
                  \cup {[uid |-> u, cancelled |-> FALSE]}
    /\ ops' = ops + 1
    /\ lastOp' = "ownerChange"
    /\ UNCHANGED aiVars
    /\ UNCHANGED <<mounted, projects, activeId, saveStatus, storage, remote, timers,
                   writes, now, nextId, madeUnder>>

\* mutant of finallyLoading: no finally
finallyMissing(cancelled, cur) == cur

\* the finally of the Initial Load effect: setLoading(false) unless cancelled
finallyLoading(cancelled, cur) == IF cancelled THEN cur ELSE FALSE

\* listProjects resolved: the rest of the Initial Load effect's async body,
\* then the render's Persistence and debounced effects
ListResolve(c, t) ==
    /\ c \in calls
    /\ t \in Readings
    /\ calls' = calls \ {c}
    /\ IF c.cancelled
       THEN /\ lastOp' = lastOp
            /\ UNCHANGED <<projects, activeId, loading, storage, timers, now,
                           nextId, madeUnder>>
       ELSE LET remoteList == listProjects(remote, c.uid)
                local == loadProjects(storage)
                initial == initialProjects(remoteList, local, nextId, nextId + 1, t)
            IN /\ projects' = initial
               /\ activeId' = initial[1].id
               /\ loading' = finallyLoading(c.cancelled, loading)
               /\ storage' = saveProjects(initial)
               /\ timers' = useDebouncedEffect(timers, user, Active(initial, initial[1].id))
               /\ nextId' = IF Len(remoteList) = 0 /\ Len(local) = 0
                            THEN nextId + 2 ELSE nextId
               /\ now' = IF Len(remoteList) = 0 /\ Len(local) = 0 THEN t ELSE now
               /\ madeUnder' = IF Len(remoteList) = 0 /\ Len(local) = 0
                               THEN [madeUnder EXCEPT ![c.uid] = @ \cup Ids(initial)]
                               ELSE madeUnder
               /\ lastOp' = IF Len(remoteList) > 0 THEN "listRemote"
                            ELSE IF Len(local) > 0 THEN "listFallback"
                            ELSE "listDefault"
    /\ UNCHANGED aiVars
    /\ UNCHANGED <<mounted, user, saveStatus, remote, writes, ops>>

\* listProjects rejected: catch logs, finally clears `loading`
ListReject(c) ==
    /\ c \in calls
    /\ calls' = calls \ {c}
    /\ loading' = finallyLoading(c.cancelled, loading)
    /\ lastOp' = IF c.cancelled THEN lastOp ELSE "listFailed"
    /\ UNCHANGED aiVars
    /\ UNCHANGED <<mounted, user, projects, activeId, saveStatus, storage, remote,
                   timers, writes, now, nextId, ops, madeUnder>>

\* mutant of Effects: the Persistence effect writes the collection of the
\* render before
EffectsOneBehind(newActive) ==
    /\ storage' = saveProjects(projects)
    /\ timers' = IF newActive
                 THEN useDebouncedEffect(timers, user, Active(projects', activeId'))
                 ELSE timers

\* the render after a handler changed `projects`: the Persistence effect, and
\* the debounced effect when `active` is another object than before
Effects(newActive) ==
    /\ storage' = saveProjects(projects')
    /\ timers' = IF newActive
                 THEN useDebouncedEffect(timers, user, Active(projects', activeId'))
                 ELSE timers

\* updateActive with an updater whose result for the active project is q;
\* fresh: the updater returned a new object rather than its argument
updateActive(q, fresh) ==
    /\ Active(projects, activeId) # Null
    /\ saveStatus' = "idle"
    /\ projects' = [k \in 1..Len(projects) |->
                      IF projects[k].id = Active(projects, activeId).id
                      THEN q ELSE projects[k]]
    /\ activeId' = activeId
    /\ Effects(fresh)

\* the editor is on screen and takes user events
Ready == mounted /\ ~loading /\ ops < MaxOps

\* a block's textarea changes
UpdateBlock(blockId, content, t) ==
    /\ Ready
    /\ t \in Readings
    /\ now' = t
    /\ updateActive(updateBlock(Active(projects, activeId), blockId, content, t), TRUE)
    /\ ops' = ops + 1
    /\ lastOp' = "updateBlock"
    /\ UNCHANGED aiVars
    /\ UNCHANGED <<mounted, user, loading, remote, calls, writes, nextId, madeUnder>>

\* a block's + button, or Enter in its textarea
AddBlockAfter(afterId, t) ==
    /\ Ready
    /\ t \in Readings
    /\ now' = t
    /\ updateActive(addBlockAfter(Active(projects, activeId), afterId, nextId, t),
                    FindIndex(Active(projects, activeId).content, afterId) # 0)
    /\ nextId' = IF FindIndex(Active(projects, activeId).content, afterId) # 0
                 THEN nextId + 1 ELSE nextId
    /\ ops' = ops + 1
    /\ lastOp' = "addBlockAfter"
    /\ UNCHANGED aiVars
    /\ UNCHANGED <<mounted, user, loading, remote, calls, writes, madeUnder>>

\* a block's x button (enabled also on the only block)
RemoveBlock(blockId, t) ==
    /\ Ready
    /\ t \in Readings
    /\ now' = t
    /\ updateActive(removeBlock(Active(projects, activeId), blockId, t),
                    Len(Active(projects, activeId).content) > 1)
    /\ ops' = ops + 1
    /\ lastOp' = "removeBlock"
    /\ UNCHANGED aiVars
    /\ UNCHANGED <<mounted, user, loading, remote, calls, writes, nextId, madeUnder>>

\* the title input changes
SetTitle(title) ==
    /\ Ready
    /\ updateActive(setTitle(Active(projects, activeId), title), TRUE)
    /\ ops' = ops + 1
    /\ lastOp' = "setTitle"
    /\ UNCHANGED aiVars
    /\ UNCHANGED <<mounted, user, loading, remote, calls, writes, now, nextId, madeUnder>>

\* a block's type select changes
SetBlockType(blockId, type) ==
    /\ Ready
    /\ updateActive(setType(Active(projects, activeId), blockId, type), TRUE)
    /\ ops' = ops + 1
    /\ lastOp' = "setType"
    /\ UNCHANGED aiVars
    /\ UNCHANGED <<mounted, user, loading, remote, calls, writes, now, nextId, madeUnder>>

\* Tab in a block's textarea
TabKey(blockId) ==
    /\ Ready
    /\ \E k \in 1..Len(Active(projects, activeId).content) :
          /\ Active(projects, activeId).content[k].id = blockId
          /\ updateActive(setType(Active(projects, activeId), blockId,
                                  tabType(Active(projects, activeId).content[k].type)),
                          TRUE)
    /\ ops' = ops + 1
    /\ lastOp' = "tabKey"
    /\ UNCHANGED aiVars
    /\ UNCHANGED <<mounted, user, loading, remote, calls, writes, now, nextId, madeUnder>>

\* the request handleGenerateSynopsis builds
AIRequest(prompt) == [moduleId |-> "synopsis-generator", payload |-> prompt]

\* mutant of runAI: the flag is not looked at
runAIUnflagged(enabled, req) ==
    [settled |-> FALSE, text |-> "", disabled |-> FALSE, fetch |-> {req}]

\* runAI up to its first await: with the flag off it returns its result at
\* once, else it calls fetch and waits
runAI(enabled, req) ==
    IF ~enabled
    THEN [settled |-> TRUE, text |-> "AI is disabled in this environment.",
          disabled |-> TRUE, fetch |-> {}]
    ELSE [settled |-> FALSE, text |-> "", disabled |-> FALSE, fetch |-> {req}]

\* handleGenerateSynopsis, to its end when runAI returns at once (alert, then
\* finally), else up to the await
Generate(prompt) ==
    /\ Ready
    /\ ~isGenerating
    /\ prompt # ""
    /\ LET response == runAI(aiEnabled, AIRequest(prompt))
       IN /\ isGenerating' = ~response.settled
          /\ fetches' = fetches \cup response.fetch
          /\ aiResult' = IF response.settled /\ ~response.disabled
                         THEN response.text ELSE aiResult
    /\ ops' = ops + 1
    /\ lastOp' = "generate"
    /\ UNCHANGED aiEnabled
    /\ UNCHANGED <<mounted, user, projects, activeId, loading, saveStatus, storage,
                   remote, calls, timers, writes, now, nextId, madeUnder>>

\* /api/ai answered 200 with {text}: setAiResult, then finally
FetchOk(f, text) ==
    /\ f \in fetches
    /\ fetches' = fetches \ {f}
    /\ aiResult' = text
    /\ isGenerating' = FALSE
    /\ lastOp' = lastOp
    /\ UNCHANGED aiEnabled
    /\ UNCHANGED <<mounted, user, projects, activeId, loading, saveStatus, storage,
                   remote, calls, timers, writes, now, nextId, ops, madeUnder>>

\* fetch rejected or the answer is not ok: runAI throws, catch alerts, then
\* finally
FetchFail(f) ==
    /\ f \in fetches
    /\ fetches' = fetches \ {f}
    /\ isGenerating' = FALSE
    /\ lastOp' = lastOp
    /\ UNCHANGED <<aiEnabled, aiResult>>
    /\ UNCHANGED <<mounted, user, projects, activeId, loading, saveStatus, storage,
                   remote, calls, timers, writes, now, nextId, ops, madeUnder>>

\* the button under the AI result
InsertAiResult ==
    /\ Ready
    /\ aiResult # ""
    /\ updateActive(appendAiResult(Active(projects, activeId), nextId, aiResult), TRUE)
    /\ nextId' = nextId + 1
    /\ ops' = ops + 1
    /\ lastOp' = "insertAi"
    /\ UNCHANGED aiVars
    /\ UNCHANGED <<mounted, user, loading, remote, calls, writes, now, madeUnder>>

\* a click on a project of the sidebar: setActiveId
Select(pid) ==
    /\ Ready
    /\ pid \in Ids(projects)
    /\ pid # activeId
    /\ activeId' = pid
    /\ timers' = IF Active(projects, pid).id # Active(projects, activeId).id
                 THEN useDebouncedEffect(timers, user, Active(projects, pid))
                 ELSE timers
    /\ ops' = ops + 1
    /\ lastOp' = "select"
    /\ UNCHANGED aiVars
    /\ UNCHANGED <<mounted, user, projects, loading, saveStatus, storage, remote,
                   calls, writes, now, nextId, madeUnder>>

\* mutant of projectsAfterCreate: the new project goes to the end
projectsAfterCreateAtEnd(p, prev) == prev \o <<p>>

\* the updater createNewProject hands to setProjects
projectsAfterCreate(p, prev) == <<p>> \o prev

\* createNewProject up to its await
createNewProject(t) ==
    /\ Ready
    /\ t \in Readings
    /\ now' = t
    /\ LET p == makeDefaultProject(nextId, nextId + 1, t)
       IN /\ projects' = projectsAfterCreate(p, projects)
          /\ activeId' = p.id
          /\ writes' = writes (+) SetToBag({UpsertCall(user, p, FALSE)})
          /\ madeUnder' = [madeUnder EXCEPT ![user] = @ \cup {p.id}]
    /\ Effects(TRUE)
    /\ nextId' = nextId + 2
    /\ ops' = ops + 1
    /\ lastOp' = "create"
    /\ UNCHANGED aiVars
    /\ UNCHANGED <<mounted, user, loading, saveStatus, remote, calls>>

\* the collection deleteCurrentProject leaves
projectsAfterDelete(ps, idToDelete) ==
    SelectSeqBy(ps, {k \in 1..Len(ps) : ps[k].id # idToDelete})

\* mutant of activeIdAfterDelete: the first project of the collection as it
\* was before the deletion
activeIdFirstOfOld(ps, idToDelete) ==
    IF Len(ps) > 1 THEN ps[1].id ELSE NoId

\* mutant of activeIdAfterDelete: activeId is left on the deleted project
activeIdKept(ps, idToDelete) == idToDelete

\* the activeId deleteCurrentProject sets
activeIdAfterDelete(ps, idToDelete) ==
    IF \E k \in 1..Len(ps) : ps[k].id # idToDelete
    THEN ps[CHOOSE k \in 1..Len(ps) :
                /\ ps[k].id # idToDelete
                /\ \A j \in 1..(k - 1) : ps[j].id = idToDelete].id
    ELSE NoId

\* deleteCurrentProject up to its await, window.confirm answered with yes (on
\* no the handler returns and nothing changes)
deleteCurrentProject ==
    /\ Ready
    /\ Active(projects, activeId) # Null
    /\ LET idToDelete == Active(projects, activeId).id
       IN /\ projects' = projectsAfterDelete(projects, idToDelete)
          /\ activeId' = activeIdAfterDelete(projects, idToDelete)
          /\ writes' = writes (+) SetToBag({RemoveCall(user, idToDelete)})
    /\ Effects(TRUE)
    /\ ops' = ops + 1
    /\ lastOp' = "delete"
    /\ UNCHANGED aiVars
    /\ UNCHANGED <<mounted, user, loading, saveStatus, remote, calls, now, nextId,
                   madeUnder>>

\* a debounce timer fires: the effect of the render that set it
TimerFire(t) ==
    /\ t \in timers
    /\ timers' = timers \ {t}
    /\ IF t.active = Null
       THEN UNCHANGED <<saveStatus, writes>>
       ELSE /\ saveStatus' = "saving"
            /\ writes' = writes (+) SetToBag({UpsertCall(t.uid, t.active, TRUE)})
    /\ lastOp' = lastOp
    /\ UNCHANGED aiVars
    /\ UNCHANGED <<mounted, user, projects, activeId, loading, storage, remote, calls,
                   now, nextId, ops, madeUnder>>

\* what the debounced effect's then/catch do with a settled upsert
statusOnSettle(status, w, outcome) ==
    IF w.tracked THEN outcome ELSE status

\* an upsertProject call resolves
UpsertOk(w) ==
    /\ BagIn(w, writes)
    /\ w.kind = "upsert"
    /\ writes' = writes (-) SetToBag({w})
    /\ remote' = upsertProject(remote, w.uid, w.project)
    /\ saveStatus' = statusOnSettle(saveStatus, w, "saved")
    /\ lastOp' = lastOp
    /\ UNCHANGED aiVars
    /\ UNCHANGED <<mounted, user, projects, activeId, loading, storage, calls, timers,
                   now, nextId, ops, madeUnder>>

\* an upsertProject call rejects
UpsertFail(w) ==
    /\ BagIn(w, writes)
    /\ w.kind = "upsert"
    /\ writes' = writes (-) SetToBag({w})
    /\ saveStatus' = statusOnSettle(saveStatus, w, "error")
    /\ lastOp' = lastOp
    /\ UNCHANGED aiVars
    /\ UNCHANGED <<mounted, user, projects, activeId, loading, storage, remote, calls,
                   timers, now, nextId, ops, madeUnder>>

\* a removeProject call resolves
RemoveOk(w) ==
    /\ BagIn(w, writes)
    /\ w.kind = "remove"
    /\ writes' = writes (-) SetToBag({w})
    /\ remote' = removeProject(remote, w.uid, w.id)
    /\ lastOp' = lastOp
    /\ UNCHANGED aiVars
    /\ UNCHANGED <<mounted, user, projects, activeId, loading, saveStatus, storage,
                   calls, timers, now, nextId, ops, madeUnder>>

\* a removeProject call rejects: nothing handles the rejection
RemoveFail(w) ==
    /\ BagIn(w, writes)
    /\ w.kind = "remove"
    /\ writes' = writes (-) SetToBag({w})
    /\ lastOp' = lastOp
    /\ UNCHANGED aiVars
    /\ UNCHANGED <<mounted, user, projects, activeId, loading, saveStatus, storage,
                   remote, calls, timers, now, nextId, ops, madeUnder>>

\* the blocks on screen
ActiveBlockIds == Ids(Active(projects, activeId).content)

\* the synchronization engine. The type select, the Tab key and the AI panel
\* reach it only through updateActive, as SetTitle does; they are run in
\* NextDoc, on one document
Next ==
    \/ Mount
    \/ \E u \in Uids : OwnerChange(u)
    \/ \E c \in calls, t \in Readings : ListResolve(c, t)
    \/ \E c \in calls : ListReject(c)
    \/ \E b \in ActiveBlockIds, x \in EditTexts, t \in Readings : UpdateBlock(b, x, t)
    \/ \E b \in ActiveBlockIds, t \in Readings : AddBlockAfter(b, t)
    \/ \E b \in ActiveBlockIds, t \in Readings : RemoveBlock(b, t)
    \/ \E x \in EditTitles : SetTitle(x)
    \/ \E pid \in Ids(projects) : Select(pid)
    \/ \E t \in Readings : createNewProject(t)
    \/ deleteCurrentProject
    \/ \E t \in timers : TimerFire(t)
    \/ \E w \in BagToSet(writes) : UpsertOk(w)
    \/ \E w \in BagToSet(writes) : UpsertFail(w)
    \/ \E w \in BagToSet(writes) : RemoveOk(w)
    \/ \E w \in BagToSet(writes) : RemoveFail(w)

Spec == Init /\ [][Next]_vars

\* every listProjects call settles: Firestore resolves or rejects getDocs
SettleList == \E c \in calls : (\E t \in Readings : ListResolve(c, t)) \/ ListReject(c)

\* the engine starts with nothing stored remotely for either owner: a load then
\* returns nothing, returns what the engine has upserted since, or fails
InitLive == Init /\ remote = [u \in Uids |-> <<>>]

LiveSpec == InitLive /\ [][Next]_vars /\ WF_vars(SettleList)

\* the engine starts over a Local Cache that holds the snapshot <<L1, L2>>
InitCached == Init /\ storage = saveProjects(<<L1, L2>>)

SpecCached == InitCached /\ [][Next]_vars

\* the engine while the Remote Store accepts every write: no upsertProject and
\* no removeProject call rejects
NextOk ==
    \/ Mount
    \/ \E u \in Uids : OwnerChange(u)
    \/ \E c \in calls, t \in Readings : ListResolve(c, t)
    \/ \E c \in calls : ListReject(c)
    \/ \E b \in ActiveBlockIds, x \in EditTexts, t \in Readings : UpdateBlock(b, x, t)
    \/ \E b \in ActiveBlockIds, t \in Readings : AddBlockAfter(b, t)
    \/ \E b \in ActiveBlockIds, t \in Readings : RemoveBlock(b, t)
    \/ \E x \in EditTitles : SetTitle(x)
    \/ \E pid \in Ids(projects) : Select(pid)
    \/ \E t \in Readings : createNewProject(t)
    \/ deleteCurrentProject
    \/ \E t \in timers : TimerFire(t)
    \/ \E w \in BagToSet(writes) : UpsertOk(w)
    \/ \E w \in BagToSet(writes) : RemoveOk(w)

SpecOk == Init /\ [][NextOk]_vars

\* --------------------------------------------- the editor on one document
\* the documents the editor is opened on: one block of each type, two blocks,
\* three blocks
D3 ==
    StoredProject(1, <<Block(2, "scene-heading", "INT. LIVING ROOM - DAY"),
                       Block(4, "action", "x"), Block(5, "shot", "x")>>)

DocProjects == {StoredProject(1, <<Block(2, ty, "x")>>) : ty \in BlockTypes} \cup {RA2, D3}

\* an id that no block of the document has: a block of another document
AbsentId == RB1.content[1].id

\* the ids the block handlers are called with: a handler of an earlier render
\* may still hold the id of a block that is gone
HandlerIds == ActiveBlockIds \cup {AbsentId}

\* the editor is on screen with one document, loaded from the Remote Store and
\* in sync with it; the build has the AI flag on or off
InitDoc ==
    /\ mounted = TRUE
    /\ user = "A"
    /\ projects \in {<<p>> : p \in DocProjects}
    /\ activeId = projects[1].id
    /\ loading = FALSE
    /\ saveStatus = "saved"
    /\ storage = saveProjects(projects)
    /\ remote = [u \in Uids |-> IF u = "A" THEN projects ELSE <<>>]
    /\ calls = {}
    /\ timers = {}
    /\ writes = EmptyBag
    /\ now = 0
    /\ nextId = FirstFreshId
    /\ ops = 0
    /\ lastOp = "listRemote"
    /\ madeUnder = [u \in Uids |-> Ids(remote[u])]
    /\ aiEnabled \in BOOLEAN
    /\ aiResult = ""
    /\ isGenerating = FALSE
    /\ fetches = {}

\* the handlers of the editor pane and of the AI panel
NextDoc ==
    \/ \E b \in HandlerIds, x \in EditTexts, t \in Readings : UpdateBlock(b, x, t)
    \/ \E b \in HandlerIds, t \in Readings : AddBlockAfter(b, t)
    \/ \E b \in HandlerIds, t \in Readings : RemoveBlock(b, t)
    \/ \E x \in EditTitles : SetTitle(x)
    \/ \E b \in ActiveBlockIds, ty \in BlockTypes : SetBlockType(b, ty)
    \/ \E b \in ActiveBlockIds : TabKey(b)
    \/ \E x \in AiPrompts : Generate(x)
    \/ \E f \in fetches, x \in AiTexts : FetchOk(f, x)
    \/ \E f \in fetches : FetchFail(f)
    \/ InsertAiResult

SpecDoc == InitDoc /\ [][NextDoc]_vars

\* ------------------------------------------------------------- the claims
\* steps, told by what they change
LoadSettles == mounted /\ loading /\ ~loading'
UserEvent(name) == ops' = ops + 1 /\ lastOp' = name
EditEvents == {"updateBlock", "addBlockAfter", "removeBlock", "setTitle"}
ListOutcomes == {"listRemote", "listFallback", "listDefault", "listFailed"}

\* C1 (checked under SpecCached, where the Local Cache holds <<L1, L2>> when
\* the engine starts): once the first load has finished on an empty remote
\* list, the collection is the cached <<L1, L2>> and the active project is L1.
C1_FallbackLoad ==
    (mounted /\ ~loading /\ ops = 0 /\ lastOp \in {"listFallback", "listDefault"})
        => /\ projects = <<L1, L2>>
           /\ activeId = L1.id
           /\ Active(projects, activeId) = L1

\* C2: after a load that ended with listProjects failing, the collection is
\* non-empty and there is an active project.
C2_RemoteFailureEditable ==
    (mounted /\ ~loading /\ lastOp = "listFailed")
        => Len(projects) > 0 /\ Active(projects, activeId) # Null

\* C3: an edit of the active project dispatches nothing itself and leaves
\* exactly one debounce timer pending, which carries the project as it is
\* after that edit; a timer that fires dispatches exactly one upsert, of the
\* state it carries. So N edits with no timer firing between them lead to one
\* upsert, of the state after the Nth edit.
C3_DebounceCoalescing ==
    [][/\ Cardinality(timers') <= 1
       /\ (\E e \in EditEvents : UserEvent(e))
              /\ Active(projects', activeId') # Active(projects, activeId)
            => /\ writes' = writes
               /\ timers' = {[uid |-> user, active |-> Active(projects', activeId')]}
       /\ \A t \in timers :
            (timers' = timers \ {t})
            => writes' = IF t.active = Null THEN writes
                         ELSE writes (+) SetToBag({UpsertCall(t.uid, t.active, TRUE)})
      ]_vars

\* C3's case: a title edit and a block edit of RA1, the timer has fired once
\* since, and the one write in flight carries RA1 as it is after both edits
C3_Witness ==
    /\ ops = 2
    /\ lastOp \in EditEvents
    /\ Active(projects, activeId).id = RA1.id
    /\ Active(projects, activeId).metadata.title = "T"
    /\ Active(projects, activeId).content[1].content = "x"
    /\ timers = {}
    /\ writes = SetToBag({UpsertCall("A", Active(projects, activeId), TRUE)})
    /\ remote["A"] = <<RA1, RA2>>

\* C4: once a load has finished, the collection holds no project that was
\* loaded or created under another owner than the current one, and no upsert
\* in flight carries a project of another owner than the one it is sent under.
C4_NoCrossOwnerLeak ==
    /\ (mounted /\ ~loading)
         => \A u \in Uids \ {user} : Ids(projects) \cap madeUnder[u] = {}
    /\ \A w \in BagToSet(writes) :
         w.kind = "upsert" => \A u \in Uids \ {w.uid} : w.id \notin madeUnder[u]

\* C5: when an upsert settles after a user event or an owner change that came
\* after its dispatch, save-status stays as it is.
C5_StaleResultDiscarded ==
    [][\A w \in BagToSet(writes) :
          (/\ w.kind = "upsert"
           /\ writes' = writes (-) SetToBag({w})
           /\ w.at < ops)
          => saveStatus' = saveStatus
      ]_vars

\* C6: every project of the collection has at least one block, and removeBlock
\* on a project of exactly one block returns that project.
C6_NonEmptyDocument ==
    \A k \in 1..Len(projects) :
        /\ Len(projects[k].content) >= 1
        /\ Len(projects[k].content) = 1
             => \A b \in Ids(projects[k].content), t \in Readings :
                    removeBlock(projects[k], b, t) = projects[k]

\* C6's case: the x button of RA1's only block was pressed, at a later time
\* than RA1's stamp, and RA1 is as it was
C6_Witness ==
    /\ lastOp = "removeBlock"
    /\ ops = 1
    /\ now > RA1.lastModifiedISO
    /\ saveStatus = "idle"
    /\ Active(projects, activeId) = RA1

\* C7 (under LiveSpec): whenever the engine is loading it is ready later.
C7_LoadingEnds == (mounted /\ loading) ~> ~loading

\* C7's case: the owner changed while a load was in flight, and the load of
\* the new owner has finished while the cancelled one is still in flight
C7_Witness ==
    /\ mounted /\ ~loading
    /\ lastOp \in ListOutcomes
    /\ ops >= 1
    /\ \E c \in calls : c.cancelled

\* C8: a load that finds the remote list and the Local Cache both empty leaves
\* exactly one project, new, with exactly one block, of type scene-heading,
\* and that project is active.
C8_ColdStart ==
    [][(/\ LoadSettles
        /\ lastOp' # "listFailed"
        /\ listProjects(remote, user) = <<>>
        /\ loadProjects(storage) = <<>>)
       => /\ Len(projects') = 1
          /\ projects'[1].id >= nextId
          /\ Len(projects'[1].content) = 1
          /\ projects'[1].content[1].type = "scene-heading"
          /\ projects'[1].metadata.title = "UNTITLED SCREENPLAY"
          /\ activeId' = projects'[1].id
          /\ Active(projects', activeId') = projects'[1]
      ]_vars

\* C8's case: the first load has synthesized the default project
C8_Witness ==
    /\ mounted /\ ~loading
    /\ lastOp = "listDefault"
    /\ ops = 0
    /\ Len(projects) = 1
    /\ remote[user] = <<>>

\* C9: a load whose remote list holds one or more projects leaves that list,
\* in its order, as the collection, with its first element active.
C9_RemoteWins ==
    [][(/\ LoadSettles
        /\ lastOp' # "listFailed"
        /\ Len(listProjects(remote, user)) >= 1)
       => /\ projects' = listProjects(remote, user)
          /\ activeId' = listProjects(remote, user)[1].id
          /\ Active(projects', activeId') = listProjects(remote, user)[1]
      ]_vars

\* C9's case: the owner changed to B while the Local Cache held A's projects,
\* and B's load adopted B's remote list
C9_Witness ==
    /\ mounted /\ ~loading
    /\ lastOp = "listRemote"
    /\ user = "B"
    /\ projects = <<RB1>>
    /\ activeId = RB1.id

\* C10: deleting the active project of a collection of n >= 2 leaves n - 1
\* projects, none with the deleted id, and an active id among them; deleting
\* the only project leaves no project and no active id.
C10_DeleteReassigns ==
    [][UserEvent("delete")
       => LET d == Active(projects, activeId).id
          IN /\ Len(projects') = Len(projects) - 1
             /\ d \notin Ids(projects')
             /\ Len(projects) >= 2 => activeId' \in Ids(projects')
             /\ Len(projects) = 1 => projects' = <<>> /\ activeId' = NoId
      ]_vars

\* C10's case: the first of RA's two projects was deleted and the second became
\* active
C10_Witness ==
    /\ lastOp = "delete"
    /\ ops = 1
    /\ projects = <<RA2>>
    /\ activeId = RA2.id

\* C11: when a removeProject call fails for a project the Remote Store holds,
\* the project stays out of the collection and save-status becomes "error".
C11_FailedDeleteReported ==
    [][\A w \in BagToSet(writes) :
          (/\ w.kind = "remove"
           /\ writes' = writes (-) SetToBag({w})
           /\ w.id \in Ids(remote[w.uid])
           /\ remote' = remote)
          => /\ w.id \notin Ids(projects')
             /\ saveStatus' = "error"
      ]_vars

\* C12 (under SpecDoc): the textarea's handler and the x button's handler,
\* called with an id that no block of the active document has, leave the
\* document equal in every field, lastModifiedISO included.
C12_NoOpEditRemove ==
    [][\A x \in HandlerIds \ ActiveBlockIds, t \in Readings :
          /\ (\E c \in EditTexts : UpdateBlock(x, c, t))
               => Active(projects', activeId') = Active(projects, activeId)
          /\ RemoveBlock(x, t)
               => Active(projects', activeId') = Active(projects, activeId)
      ]_vars

\* C13 (under SpecDoc): the insert handler, called with an id that no block of
\* the active document has, runs to its end and leaves the document as it
\* was: the same blocks in the same order and the same lastModifiedISO.
C13_NoOpInsert ==
    [][\A x \in HandlerIds \ ActiveBlockIds, t \in Readings :
          /\ Ready => ENABLED AddBlockAfter(x, t)
          /\ AddBlockAfter(x, t)
               => /\ Active(projects', activeId') = Active(projects, activeId)
                  /\ projects' = projects
      ]_vars

\* C13's case: the insert handler ran on the three-block document with an
\* absent id, at a later clock reading than the document's stamp
C13_Witness ==
    /\ lastOp = "addBlockAfter"
    /\ ops = 1
    /\ now > D3.lastModifiedISO
    /\ nextId = FirstFreshId
    /\ projects = <<D3>>

\* C14 (under SpecDoc): the insert handler, called with the id of the block at
\* position i of the active document, leaves a document of one block more,
\* where position i + 1 holds a new block of empty content whose id no block
\* had before, and the blocks that were there are as they were, in their order.
C14_InsertOrdering ==
    [][\A a \in ActiveBlockIds, t \in Readings :
          AddBlockAfter(a, t)
          => LET old == Active(projects, activeId).content
                 new == Active(projects', activeId').content
                 i == FindIndex(old, a)
             IN /\ Len(new) = Len(old) + 1
                /\ new[i + 1].content = ""
                /\ new[i + 1].id \notin Ids(old)
                /\ \A k \in 1..i : new[k] = old[k]
                /\ \A k \in (i + 1)..Len(old) : new[k + 1] = old[k]
      ]_vars

\* C14's case: a block was inserted after the first of D3's three blocks
C14_Witness ==
    /\ lastOp = "addBlockAfter"
    /\ ops = 1
    /\ Len(projects) = 1
    /\ projects[1].content =
         <<D3.content[1], Block(FirstFreshId, "action", ""), D3.content[2], D3.content[3]>>

\* the successor-type table of the document model
SuccessorType ==
    ("scene-heading" :> "action") @@ ("character" :> "dialogue")
    @@ ("parenthetical" :> "dialogue") @@ ("dialogue" :> "character")
    @@ ("transition" :> "scene-heading") @@ ("action" :> "action")
    @@ ("shot" :> "action")

\* C15 (under SpecDoc): the block that the insert handler creates after a
\* block of type ty has the type the successor-type table gives for ty.
C15_SuccessorType ==
    [][\A a \in ActiveBlockIds, t \in Readings :
          AddBlockAfter(a, t)
          => LET old == Active(projects, activeId).content
                 new == Active(projects', activeId').content
                 i == FindIndex(old, a)
             IN new[i + 1].type = SuccessorType[old[i].type]
      ]_vars

\* C15's case: blocks were inserted after a transition and then after the
\* scene heading that this made
C15_Witness ==
    /\ lastOp = "addBlockAfter"
    /\ ops = 2
    /\ Len(projects) = 1
    /\ Len(projects[1].content) = 3
    /\ projects[1].content[1].type = "transition"
    /\ projects[1].content[2] = Block(FirstFreshId, "scene-heading", "")
    /\ projects[1].content[3] = Block(FirstFreshId + 1, "action", "")

\* the handlers that change the active document
MutationEvents ==
    {"updateBlock", "setType", "tabKey", "addBlockAfter", "removeBlock", "insertAi",
     "setTitle"}

\* C16 (under SpecDoc): a handler that changes the active document leaves it
\* stamped with the clock of that change, which is never older than the stamp
\* it had.
C16_MutationStamps ==
    [][(/\ \E e \in MutationEvents : UserEvent(e)
        /\ Active(projects', activeId') # Active(projects, activeId))
       => /\ Active(projects', activeId').lastModifiedISO >= now'
          /\ Active(projects', activeId').lastModifiedISO
               >= Active(projects, activeId).lastModifiedISO
      ]_vars

\* C17 (under SpecDoc): in a build with the AI flag off, runAI returns at once,
\* for every request, a result marked disabled and calls fetch for none; the
\* generate handler then leaves no request to /api/ai in flight, and the AI
\* result and the busy mark as they were.
C17_AssistDisabled ==
    [][~aiEnabled
       => /\ \A x \in AiPrompts :
               /\ runAI(aiEnabled, AIRequest(x)).settled
               /\ runAI(aiEnabled, AIRequest(x)).disabled
               /\ runAI(aiEnabled, AIRequest(x)).fetch = {}
          /\ fetches' = {}
          /\ UserEvent("generate")
               => fetches' = fetches /\ ~isGenerating' /\ aiResult' = aiResult
      ]_vars

\* C17's case: generate was pressed twice in a build with the flag off
C17_Witness ==
    /\ ~aiEnabled
    /\ lastOp = "generate"
    /\ ops = 2
    /\ fetches = {}
    /\ ~isGenerating
    /\ aiResult = ""

\* C18: a debounce timer that dispatches its upsert sets save-status to
\* "saving"; while that upsert is in flight and no user event has come since
\* its dispatch, save-status is "saving"; when it settles save-status becomes
\* "saved" or "error", "saved" if the Remote Store changed; and an edit that
\* changes the active project sets save-status to "idle".
C18_SaveStatusLifecycle ==
    [][/\ \A t \in timers :
            (timers' = timers \ {t} /\ t.active # Null) => saveStatus' = "saving"
       /\ \A w \in BagToSet(writes') :
            (w.kind = "upsert" /\ w.tracked /\ w.at = ops') => saveStatus' = "saving"
       /\ \A w \in BagToSet(writes) :
            (w.kind = "upsert" /\ w.tracked /\ writes' = writes (-) SetToBag({w}))
            => /\ saveStatus' \in {"saved", "error"}
               /\ remote' # remote => saveStatus' = "saved"
       /\ ((\E e \in EditEvents : UserEvent(e))
             /\ Active(projects', activeId') # Active(projects, activeId))
            => saveStatus' = "idle"
      ]_vars

\* C19: when the owner changes, every debounce timer that was pending with a
\* project to upsert is cancelled, the load in flight is cancelled, and a load
\* for the new owner starts.
C19_OwnerSwitchCancels ==
    [][UserEvent("ownerChange")
       => /\ \A t \in timers : t.active # Null => t \notin timers'
          /\ loading'
          /\ [uid |-> user', cancelled |-> FALSE] \in calls'
          /\ \A c \in calls' : ~c.cancelled => c.uid = user'
      ]_vars

\* C20: the new-project handler leaves the collection as it was with one
\* project ahead of it, which is new, has the default template's shape and is
\* active, and in the same step an upsert of that project under the current
\* owner is in flight.
C20_CreateImmediate ==
    [][UserEvent("create")
       => /\ Len(projects') = Len(projects) + 1
          /\ Tail(projects') = projects
          /\ Head(projects').id \notin Ids(projects)
          /\ Len(Head(projects').content) = 1
          /\ Head(projects').content[1].type = "scene-heading"
          /\ activeId' = Head(projects').id
          /\ Active(projects', activeId') = Head(projects')
          /\ \E w \in BagToSet(writes') :
                /\ w.kind = "upsert" /\ w.uid = user /\ w.project = Head(projects')
                /\ CopiesIn(w, writes') = CopiesIn(w, writes) + 1
      ]_vars

\* C20's case: a project was created ahead of A's two remote projects and its
\* upsert is in flight while the debounce timer is still pending
C20_Witness ==
    /\ lastOp = "create"
    /\ ops = 1
    /\ Len(projects) = 3
    /\ SubSeq(projects, 2, 3) = <<RA1, RA2>>
    /\ activeId = projects[1].id
    /\ timers # {}
    /\ \E w \in BagToSet(writes) : w.kind = "upsert" /\ w.project = projects[1]

\* C21: activeId is null or the id of a project of the collection.
C21_ActiveIsMember == activeId = NoId \/ activeId \in Ids(projects)

\* C21's case: a project was created ahead of A's remote projects and then
\* deleted, and the first of the projects that remain is active
C21_Witness ==
    /\ lastOp = "delete"
    /\ ops = 2
    /\ nextId > FirstFreshId
    /\ projects = <<RA1, RA2>>
    /\ activeId = RA1.id

\* C22: a step that changes the collection also writes that collection to the
\* Local Cache, so that once the editor is mounted the Local Cache holds the
\* collection as it is after every step.
C22_CacheMirrorsMemory ==
    [][/\ projects' # projects => storage' = saveProjects(projects')
       /\ mounted' => storage' = saveProjects(projects')
      ]_vars

\* C22's case: a project was created and its first block edited, and the
\* Local Cache holds the three projects with that edit
C22_Witness ==
    /\ lastOp = "updateBlock"
    /\ ops = 2
    /\ Len(projects) = 3
    /\ projects[1].content[1].content = "x"
    /\ storage.kind = "array"
    /\ storage.value = projects

\* nothing is pending: no timer, no write and no list call
Quiet == timers = {} /\ writes = EmptyBag /\ calls = {}

\* the Remote Store's copy of a project under an owner is that project
InRemote(u, p) == \E k \in 1..Len(remote[u]) : remote[u][k] = p

\* C23 (under SpecOk, where every write succeeds): when a load has adopted the
\* Local Cache's projects or a synthesized default, no user event has come
\* since and nothing is pending any more, the Remote Store holds every project
\* of the collection under the owner.
C23_FallbackSetPushed ==
    (mounted /\ ~loading /\ lastOp \in {"listFallback", "listDefault"} /\ Quiet)
        => \A k \in 1..Len(projects) : InRemote(user, projects[k])

\* C24: whenever the editor is ready with a project on screen and save-status
\* is "saved", the Remote Store's copy of the active project under the owner
\* is the active project as it is in memory.
C24_SavedMeansConfirmed ==
    (mounted /\ ~loading /\ saveStatus = "saved" /\ Active(projects, activeId) # Null)
        => InRemote(user, Active(projects, activeId))

\* C25 (under SpecOk, where every write succeeds): when owner A's two remote
\* projects are on screen, the user events so far were edits and selections,
\* and nothing is pending any more, the Remote Store holds every project of
\* the collection as it is in memory.
C25_EventuallyConsistent ==
    (/\ mounted /\ ~loading /\ Quiet
     /\ user = "A"
     /\ lastOp \in EditEvents \cup {"select"}
     /\ [k \in 1..Len(projects) |-> projects[k].id] = <<RA1.id, RA2.id>>)
        => \A k \in 1..Len(projects) : InRemote(user, projects[k])

\* C26: no upsert settles while an upsert of the same project under the same
\* owner that was dispatched before it, with an older state, is still in
\* flight: the older one would complete last.
C26_RemoteNeverRegresses ==
    [][\A w \in BagToSet(writes), v \in BagToSet(writes) :
          (/\ w.kind = "upsert" /\ v.kind = "upsert"
           /\ w.uid = v.uid /\ w.id = v.id
           /\ v.at < w.at /\ v.project # w.project)
          => writes' # writes (-) SetToBag({w})
      ]_vars

\* C27 (under SpecCached, where the Local Cache holds <<L1, L2>> when the
\* engine starts): until the first load has settled, the Local Cache holds the
\* snapshot <<L1, L2>>.
C27_SnapshotSurvives ==
    (ops = 0 /\ lastOp \in {"init", "mount"}) => loadProjects(storage) = <<L1, L2>>

\* C28: while all that has happened is a load that adopted the Remote Store's
\* list, or such a load and then one selection in the sidebar, a debounce timer
\* that fires dispatches no upsert.
C28_UpsertsOnlyOnChange ==
    [][\A t \in timers :
          (/\ timers' = timers \ {t}
           /\ \/ ops = 0 /\ lastOp = "listRemote"
              \/ ops = 1 /\ lastOp = "select")
          => writes' = writes
      ]_vars
====
